---- MODULE Spec2Model ----
(***************************************************************************)
(* A model of config/filewrite.py: the FileWriter that accumulates         *)
(* (path, lines) fragments in write_files and, in finish, groups them by   *)
(* path, prepends the banner chosen by the extension and writes each file  *)
(* only when it differs from the one on disk; and the writer() scope that  *)
(* runs finish on exit.                                                    *)
(*                                                                         *)
(* Representation.  A path is the sequence of its characters.  A text (a   *)
(* line, a file's content) is a sequence of atoms: an atom is one          *)
(* whitespace character, or a piece of text that neither starts nor ends   *)
(* with whitespace and holds no line break.  A line of a constant is cut   *)
(* into its leading whitespace, one atom, its trailing whitespace; a       *)
(* formatted line is cut where the format puts its arguments.  Strip,      *)
(* splitlines, join and the reading of a file in text mode are computed on *)
(* the atoms as Python computes them on the characters.                    *)
(***************************************************************************)
EXTENDS Integers, Sequences, FiniteSets, TLC

(***************************************************************************)
(* Generic helpers on sequences.                                           *)
(***************************************************************************)
Range(s) == {s[i] : i \in DOMAIN s}

Slice(s, lo, hi) == IF lo > hi THEN <<>> ELSE SubSeq(s, lo, hi)

RECURSIVE Concat(_)
Concat(ss) == IF ss = <<>> THEN <<>> ELSE Head(ss) \o Concat(Tail(ss))

\* The largest i with s[i] = c, or 0: str.rfind, shifted to 1-based positions.
RFind(s, c) ==
    LET hits == {i \in DOMAIN s : s[i] = c}
    IN  IF hits = {} THEN 0 ELSE CHOOSE i \in hits : \A j \in hits : j <= i

(***************************************************************************)
(* Python's str operations on texts.                                       *)
(***************************************************************************)
\* The whitespace str.strip() removes (the characters of it the model uses).
Whitespace == {" ", "\t", "\n", "\r", "\f"}

\* The line boundaries of str.splitlines() (those the model uses).
LineBreaks == {"\n", "\r", "\f"}

\* The k-th smallest element of a finite set of integers.
Nth(S, k) == CHOOSE i \in S : Cardinality({j \in S : j < i}) = k - 1

\* str.strip(): what lies between the first and the last atom that is not
\* whitespace.
Strip(s) ==
    LET solid == {i \in DOMAIN s : s[i] \notin Whitespace}
    IN  IF solid = {} THEN <<>>
        ELSE SubSeq(s, CHOOSE i \in solid : \A j \in solid : i <= j,
                       CHOOSE i \in solid : \A j \in solid : j <= i)

StripAll(lines) == [i \in DOMAIN lines |-> Strip(lines[i])]

\* '\n'.join(lines)
RECURSIVE Join(_)
Join(lines) ==
    IF lines = <<>> THEN <<>>
    ELSE IF Len(lines) = 1 THEN lines[1]
    ELSE lines[1] \o <<"\n">> \o Join(Tail(lines))

\* Where the lines of s lie, its line boundaries starting at the positions
\* of `starts`, a boundary being two atoms long at the positions of `wide`:
\* line k runs from the end of boundary k - 1 to the start of boundary k, and
\* what follows the last boundary is a line, not closed, if it is not empty.
LineRanges(s, starts, wide) ==
    LET n     == Cardinality(starts)
        From(k) == IF k = 1 THEN 1
                   ELSE LET b == Nth(starts, k - 1) IN IF b \in wide THEN b + 2 ELSE b + 1
        body  == [k \in 1..n |-> [from |-> From(k), to |-> Nth(starts, k) - 1, closed |-> TRUE]]
    IN  IF From(n + 1) > Len(s) THEN body
        ELSE Append(body, [from |-> From(n + 1), to |-> Len(s), closed |-> FALSE])

\* The positions where "\r\n" stands.
CrLfAt(s) == {i \in DOMAIN s : s[i] = "\r" /\ i < Len(s) /\ s[i + 1] = "\n"}

\* str.splitlines(): the text cut at every line boundary ("\r\n" is one
\* boundary), boundaries dropped, no empty last line after a final boundary.
SplitLines(s) ==
    LET wide   == CrLfAt(s)
        starts == {i \in DOMAIN s : s[i] \in LineBreaks /\ (i - 1) \notin wide}
        ranges == LineRanges(s, starts, wide)
    IN  [k \in DOMAIN ranges |-> Slice(s, ranges[k].from, ranges[k].to)]

\* Iterating a file opened 'rt': universal newlines ("\r\n" and "\r" read as
\* "\n"), each line keeping its "\n"; "\f" ends no line.
ReadLines(s) ==
    LET wide   == CrLfAt(s)
        starts == {i \in DOMAIN s : s[i] \in {"\n", "\r"} /\ (i - 1) \notin wide}
        ranges == LineRanges(s, starts, wide)
    IN  [k \in DOMAIN ranges |->
            Slice(s, ranges[k].from, ranges[k].to)
                \o (IF ranges[k].closed THEN <<"\n">> ELSE <<>>)]

(***************************************************************************)
(* difflib.SequenceMatcher(a, b).ratio(), for sequences below the 200      *)
(* elements at which its "popular element" heuristic starts.               *)
(***************************************************************************)
\* The length of the common run of a from i and b from j, within the ranges.
RECURSIVE CommonRun(_, _, _, _, _, _)
CommonRun(a, b, i, j, ahi, bhi) ==
    IF i <= ahi /\ j <= bhi /\ a[i] = b[j]
    THEN 1 + CommonRun(a, b, i + 1, j + 1, ahi, bhi)
    ELSE 0

\* find_longest_match: <<i, j, k>>, the longest block a[i..i+k-1] = b[j..j+k-1]
\* in a[alo..ahi], b[blo..bhi]; of those the earliest in a, then in b.
find_longest_match(a, b, alo, ahi, blo, bhi) ==
    LET cands == {<<i, j, CommonRun(a, b, i, j, ahi, bhi)>> : i \in alo..ahi, j \in blo..bhi}
        hits  == {c \in cands : c[3] > 0}
        Better(c, d) == \/ c[3] > d[3]
                        \/ c[3] = d[3] /\ c[1] < d[1]
                        \/ c[3] = d[3] /\ c[1] = d[1] /\ c[2] <= d[2]
    IN  IF hits = {} THEN <<alo, blo, 0>>
        ELSE CHOOSE c \in hits : \A d \in hits : Better(c, d)

\* The total size of get_matching_blocks: the longest block, then the same to
\* its left and to its right.
RECURSIVE MatchCount(_, _, _, _, _, _)
MatchCount(a, b, alo, ahi, blo, bhi) ==
    IF alo > ahi \/ blo > bhi THEN 0
    ELSE LET m == find_longest_match(a, b, alo, ahi, blo, bhi)
         IN  IF m[3] = 0 THEN 0
             ELSE m[3] + MatchCount(a, b, alo, m[1] - 1, blo, m[2] - 1)
                       + MatchCount(a, b, m[1] + m[3], ahi, m[2] + m[3], bhi)

\* ratio() < 1, where ratio() is 2.0 * matches / (len(a) + len(b)), and 1.0
\* for two empty sequences.
RatioBelowOne(a, b) ==
    /\ Len(a) + Len(b) > 0
    /\ 2 * MatchCount(a, b, 1, Len(a), 1, Len(b)) < Len(a) + Len(b)

\* A variant that compares the lines as read, nothing stripped.
files_are_different_Unstripped(oldContent, newLines) ==
    RatioBelowOne(ReadLines(oldContent), newLines)

\* files_are_different(rfp, new_rfp): rfp the open file, new_rfp the new
\* text's splitlines().
files_are_different(oldContent, newLines) ==
    LET old_file_lines == StripAll(ReadLines(oldContent))
        new_file_lines == StripAll(newLines)
    IN  RatioBelowOne(old_file_lines, new_file_lines)

(***************************************************************************)
(* Paths: sequences of characters, compared as Python compares str.        *)
(***************************************************************************)
\* The printable ASCII characters in code order, 32 (space) to 126 (the grave
\* accent, 96, which a TLA+ string cannot hold, by a placeholder).
AsciiPrintable ==
    <<
       " ", "!", "\"", "#", "$", "%", "&", "'", "(", ")", "*", "+", ",", "-", ".", "/",
       "0", "1", "2", "3", "4", "5", "6", "7", "8", "9", ":", ";", "<", "=", ">", "?",
       "@", "A", "B", "C", "D", "E", "F", "G", "H", "I", "J", "K", "L", "M", "N", "O",
       "P", "Q", "R", "S", "T", "U", "V", "W", "X", "Y", "Z", "[", "\\", "]", "^", "_",
       "GRAVE", "a", "b", "c", "d", "e", "f", "g", "h", "i", "j", "k", "l", "m", "n", "o",
       "p", "q", "r", "s", "t", "u", "v", "w", "x", "y", "z", "{", "|", "}", "~"
    >>

\* ord(c)
Ord == [c \in Range(AsciiPrintable) |->
            31 + CHOOSE i \in DOMAIN AsciiPrintable : AsciiPrintable[i] = c]

\* p < q for two str: at the first position where they differ the smaller
\* code decides; a proper prefix is smaller.
StrLess(p, q) ==
    LET differ == {i \in DOMAIN p \cap DOMAIN q : p[i] # q[i]}
    IN  IF differ = {} THEN Len(p) < Len(q)
        ELSE LET i == CHOOSE k \in differ : \A j \in differ : k <= j
             IN  Ord[p[i]] < Ord[q[i]]

\* str.split(sep) for a one-character sep
Split(s, sep) ==
    LET at == {i \in DOMAIN s : s[i] = sep}
        n  == Cardinality(at)
        From(k) == IF k = 1 THEN 1 ELSE Nth(at, k - 1) + 1
        To(k)   == IF k = n + 1 THEN Len(s) ELSE Nth(at, k) - 1
    IN  [k \in 1..(n + 1) |-> Slice(s, From(k), To(k))]

\* sep.join(parts) for a one-character sep
RECURSIVE JoinWith(_, _)
JoinWith(parts, sep) ==
    IF parts = <<>> THEN <<>>
    ELSE IF Len(parts) = 1 THEN parts[1]
    ELSE parts[1] \o <<sep>> \o JoinWith(Tail(parts), sep)

\* s.rstrip('/')
RStripSlash(s) ==
    LET solid == {i \in DOMAIN s : s[i] # "/"}
    IN  IF solid = {} THEN <<>>
        ELSE SubSeq(s, 1, CHOOSE i \in solid : \A j \in solid : j <= i)

\* os.path.join(a, b) (posixpath)
PathJoin(a, b) ==
    IF b # <<>> /\ Head(b) = "/" THEN b
    ELSE IF a = <<>> \/ a[Len(a)] = "/" THEN a \o b
    ELSE a \o <<"/">> \o b

PathJoin3(a, b, c) == PathJoin(PathJoin(a, b), c)

\* os.path.dirname(p)
Dirname(p) ==
    LET head == Slice(p, 1, RFind(p, "/"))
    IN  IF head # <<>> /\ Range(head) # {"/"} THEN RStripSlash(head) ELSE head

\* os.path.splitext(p)[1]: from the last dot of the last component, unless
\* only dots precede it there.
SplitextExt(p) ==
    LET sepIndex == RFind(p, "/")
        dotIndex == RFind(p, ".")
    IN  IF dotIndex > sepIndex
           /\ \E k \in (sepIndex + 1)..(dotIndex - 1) : p[k] # "."
        THEN Slice(p, dotIndex, Len(p))
        ELSE <<>>

\* The component loop of os.path.normpath.
RECURSIVE NormComps(_, _, _)
NormComps(comps, initial_slashes, new_comps) ==
    IF comps = <<>> THEN new_comps
    ELSE LET comp == Head(comps)
             dotdot == <<".", ".">>
         IN  IF comp = <<>> \/ comp = <<".">>
             THEN NormComps(Tail(comps), initial_slashes, new_comps)
             ELSE IF \/ comp # dotdot
                     \/ (initial_slashes = 0 /\ new_comps = <<>>)
                     \/ (new_comps # <<>> /\ new_comps[Len(new_comps)] = dotdot)
             THEN NormComps(Tail(comps), initial_slashes, Append(new_comps, comp))
             ELSE IF new_comps # <<>>
             THEN NormComps(Tail(comps), initial_slashes,
                            SubSeq(new_comps, 1, Len(new_comps) - 1))
             ELSE NormComps(Tail(comps), initial_slashes, new_comps)

\* os.path.normpath(p)
Normpath(p) ==
    IF p = <<>> THEN <<".">>
    ELSE LET initial_slashes ==
                 IF Head(p) # "/" THEN 0
                 ELSE IF Len(p) >= 2 /\ p[2] = "/" /\ ~(Len(p) >= 3 /\ p[3] = "/")
                 THEN 2 ELSE 1
             body == JoinWith(NormComps(Split(p, "/"), initial_slashes, <<>>), "/")
             path == [i \in 1..initial_slashes |-> "/"] \o body
         IN  IF path = <<>> THEN <<".">> ELSE path

\* The working directory of the process.
Cwd == <<"/", "w">>

\* os.path.abspath(p)
Abspath(p) == Normpath(IF p # <<>> /\ Head(p) = "/" THEN p ELSE PathJoin(Cwd, p))

\* A variant that makes the directory alone, as os.mkdir does.
Ancestors_Leaf(d) == {d}

\* The directories os.makedirs(d) makes sure exist: d and every ancestor.
RECURSIVE Ancestors(_)
Ancestors(d) == IF Dirname(d) = d THEN {d} ELSE {d} \cup Ancestors(Dirname(d))

(***************************************************************************)
(* The constants of filewrite.py.                                          *)
(***************************************************************************)
constants_file_name == <<"c", "h", "a", "m", "p", "s", "i", "m", "_", "c", "o", "n", "s", "t", "a", "n", "t", "s", ".", "h">>
instantiation_file_name == <<"c", "o", "r", "e", "_", "i", "n", "s", "t", ".", "i", "n", "c">>
core_module_declaration_file_name == <<"o", "o", "o", "_", "c", "p", "u", "_", "m", "o", "d", "u", "l", "e", "_", "d", "e", "c", "l", ".", "i", "n", "c">>
core_module_definition_file_name == <<"o", "o", "o", "_", "c", "p", "u", "_", "m", "o", "d", "u", "l", "e", "_", "d", "e", "f", ".", "i", "n", "c">>
cache_module_declaration_file_name == <<"c", "a", "c", "h", "e", "_", "m", "o", "d", "u", "l", "e", "_", "d", "e", "c", "l", ".", "i", "n", "c">>
cache_module_definition_file_name == <<"c", "a", "c", "h", "e", "_", "m", "o", "d", "u", "l", "e", "_", "d", "e", "f", ".", "i", "n", "c">>

\* __file__: where the module is installed, <root>/config/filewrite.py.
ModuleFile == <<"/", "r", "/", "c", "o", "n", "f", "i", "g", "/", "f", "i", "l", "e", "w", "r", "i", "t", "e", ".", "p", "y">>

makefile_file_name ==
    PathJoin(Dirname(Dirname(Abspath(ModuleFile))), <<"_", "c", "o", "n", "f", "i", "g", "u", "r", "a", "t", "i", "o", "n", ".", "m", "k">>)

cxx_generated_warning ==
    << <<"/***">>,
       <<" ", "* THIS FILE IS AUTOMATICALLY GENERATED">>,
       <<" ", "* Do not edit this file. It will be overwritten when the configure script is run.">>,
       <<" ", "***/">>,
       <<>> >>

make_generated_warning ==
    << <<"###">>,
       <<"# THIS FILE IS AUTOMATICALLY GENERATED">>,
       <<"# Do not edit this file. It will be overwritten when the configure script is run.">>,
       <<"###">>,
       <<>> >>

(***************************************************************************)
(* The state.                                                              *)
(*                                                                         *)
(* A fragment, an element of self.fileparts, is [path, lines, lazy]: lazy  *)
(* tells a single-pass sequence (a generator), whose lines are those it    *)
(* has yet to yield; a list or tuple keeps its lines.                      *)
(***************************************************************************)
VARIABLES
    fileparts,  \* self.fileparts
    fs,         \* the regular files on disk: absolute path -> content
    dirs,       \* the directories on disk
    pc,         \* "body": the caller holds the writer; "finish": finish is
                \* running; "returned" / "raised": the writer() scope was left
    caller,     \* who called the running (or last) finish: "scope" or "body"
    groups,     \* finish: the groups of the sorted list not yet reached
    err,        \* the exception in flight: "none", or what raised it
    nFinish,    \* how many times finish was called
    self,       \* the writer's bindir_name and objdir_name
    calls,      \* one record per write_files call made
    trace       \* what finish did: one record per call and per group reached

vars == <<fileparts, fs, dirs, pc, caller, groups, err, nFinish, self, calls, trace>>

\* What only write_files and the constructor touch.
wf == <<self, calls>>

\* None
None == <<"None">>

\* A directory name given to writer() or to write_files is [path, word]: its
\* characters, and the word by which the makefile lines show it.
Dir(path, word) == [path |-> path, word |-> word]

NoDir == Dir(None, "None")

Fragment(path, lines, lazy) == [path |-> path, lines |-> lines, lazy |-> lazy]

(***************************************************************************)
(* finish: sorted(self.fileparts, key=itemgetter(0)) and itertools.groupby *)
(***************************************************************************)
\* A variant that sorts the paths in descending order.
SortedByPath_Descending(parts) ==
    LET Before(i) == {j \in DOMAIN parts :
                         \/ StrLess(parts[i].path, parts[j].path)
                         \/ parts[j].path = parts[i].path /\ j < i}
    IN  [k \in DOMAIN parts |->
            CHOOSE i \in DOMAIN parts : Cardinality(Before(i)) = k - 1]

\* A variant whose sort is not stable: among equal paths the later position
\* comes first.
SortedByPath_Unstable(parts) ==
    LET Before(i) == {j \in DOMAIN parts :
                         \/ StrLess(parts[j].path, parts[i].path)
                         \/ parts[j].path = parts[i].path /\ j > i}
    IN  [k \in DOMAIN parts |->
            CHOOSE i \in DOMAIN parts : Cardinality(Before(i)) = k - 1]

\* The positions of fileparts in sorted order: list.sort is stable, so a
\* position comes after those of a smaller path and after the earlier ones
\* of its own path.
SortedByPath(parts) ==
    LET Before(i) == {j \in DOMAIN parts :
                         \/ StrLess(parts[j].path, parts[i].path)
                         \/ parts[j].path = parts[i].path /\ j < i}
    IN  [k \in DOMAIN parts |->
            CHOOSE i \in DOMAIN parts : Cardinality(Before(i)) = k - 1]

\* itertools.groupby: the maximal runs of consecutive equal keys.
GroupByPath(parts, sorted) ==
    LET starts == {k \in DOMAIN sorted :
                      k = 1 \/ parts[sorted[k]].path # parts[sorted[k - 1]].path}
        n      == Cardinality(starts)
        End(m) == IF m = n THEN Len(sorted) ELSE Nth(starts, m + 1) - 1
    IN  [m \in 1..n |-> SubSeq(sorted, Nth(starts, m), End(m))]

FinishGroups(parts) == GroupByPath(parts, SortedByPath(parts))

\* A variant that gives .inc files no banner.
Header_NoInc(fname) ==
    LET ext == SplitextExt(fname)
    IN  IF ext \in {<<".", "c", "c">>, <<".", "h">>} THEN cxx_generated_warning
        ELSE IF ext \in {<<".", "m", "k">>} THEN make_generated_warning
        ELSE <<>>

\* The banner finish chains before the group's lines, by os.path.splitext.
Header(fname) ==
    LET ext == SplitextExt(fname)
    IN  IF ext \in {<<".", "c", "c">>, <<".", "h">>, <<".", "i", "n", "c">>} THEN cxx_generated_warning
        ELSE IF ext \in {<<".", "m", "k">>} THEN make_generated_warning
        ELSE <<>>

\* A variant that takes the lines of the group's first fragment alone.
GroupLines_FirstOnly(parts, g) == parts[g[1]].lines

\* The lines the group's fragments yield now, in the group's order.
GroupLines(parts, g) == Concat([k \in DOMAIN g |-> parts[g[k]].lines])

\* A variant that chains the banner before every fragment of the group.
NewFileString_BannerPerFragment(parts, g) ==
    Join(Concat([k \in DOMAIN g |-> Header(parts[g[k]].path) \o parts[g[k]].lines]))

\* '\n'.join(contents_with_header)
NewFileString(parts, g) == Join(Header(parts[g[1]].path) \o GroupLines(parts, g))

\* The fragments once the generators among positions `used` ran out.
Exhaust(parts, used) ==
    [i \in DOMAIN parts |->
        IF i \in used /\ parts[i].lazy THEN [parts[i] EXCEPT !.lines = <<>>] ELSE parts[i]]

\* write_if_different: whether the file is opened for writing.
should_write(files, fname, new_file_string) ==
    IF fname \in DOMAIN files
    THEN files_are_different(files[fname], SplitLines(new_file_string))
    ELSE TRUE

\* A variant that opens the file for appending.
write_if_different_Append(files, fname, new_file_string) ==
    IF should_write(files, fname, new_file_string)
    THEN [p \in DOMAIN files \cup {fname} |->
              IF p # fname THEN files[p]
              ELSE IF fname \in DOMAIN files THEN files[fname] \o new_file_string
              ELSE new_file_string]
    ELSE files

\* A variant that empties the disk of the other files before it writes.
write_if_different_Wipes(files, fname, new_file_string) ==
    IF should_write(files, fname, new_file_string)
    THEN [p \in {fname} |-> new_file_string]
    ELSE files

\* The files after write_if_different(fname, new_file_string).
write_if_different(files, fname, new_file_string) ==
    IF should_write(files, fname, new_file_string)
    THEN [p \in DOMAIN files \cup {fname} |->
              IF p = fname THEN new_file_string ELSE files[p]]
    ELSE files

(***************************************************************************)
(* finish, one step per group of the sorted list.                          *)
(***************************************************************************)
NoError == "none"

\* What the trace keeps of one group reached: its path, the directories
\* os.makedirs made, the lines its fragments yielded, the text joined from
\* them, whether the path existed, whether the file was opened for writing,
\* and the exception that ended it, if any.  A call of finish leaves an event
\* of its own.
Event(op, fname, made, lines, new, existed, wrote, error) ==
    [op |-> op, fname |-> fname, made |-> made, lines |-> lines, new |-> new,
     existed |-> existed, wrote |-> wrote, error |-> error]

\* The call of self.finish() by `who`: line 103 sorts and groups the list.
EnterFinish(parts, who) ==
    /\ pc' = "finish"
    /\ caller' = who
    /\ groups' = FinishGroups(parts)
    /\ nFinish' = nFinish + 1
    /\ trace' = Append(trace, Event("finish", <<>>, {}, <<>>, <<>>, FALSE, FALSE, NoError))

\* A variant in which the exception is caught inside the loop, which goes on.
FinishRaises_Continue(kind) ==
    /\ pc' = pc
    /\ err' = kind

\* Where control goes when finish raises: out of the scope, or to the caller
\* that called it, which this model lets fail with it.
FinishRaises(kind) ==
    /\ pc' = "raised"
    /\ err' = kind

\* One pass of the loop body, lines 104-112, nothing failing.
FinishGroup ==
    /\ pc = "finish"
    /\ groups # <<>>
    /\ LET g     == Head(groups)
           fname == fileparts[g[1]].path
           dir   == Abspath(Dirname(fname))
           new   == NewFileString(fileparts, g)
       IN  /\ Ancestors(dir) \cap DOMAIN fs = {}
           /\ fname \notin dirs
           /\ dirs' = dirs \cup Ancestors(dir)
           /\ fs' = write_if_different(fs, fname, new)
           /\ fileparts' = Exhaust(fileparts, Range(g))
           /\ trace' = Append(trace, Event("group", fname, Ancestors(dir) \ dirs,
                                           GroupLines(fileparts, g), new,
                                           fname \in DOMAIN fs,
                                           should_write(fs, fname, new), NoError))
    /\ groups' = Tail(groups)
    /\ UNCHANGED <<pc, caller, err, nFinish, wf>>

\* os.makedirs raises (line 104): the ancestors above some directory d of the
\* chain were made, d was not.
FinishMakedirsRaises ==
    /\ pc = "finish"
    /\ groups # <<>>
    /\ LET g     == Head(groups)
           fname == fileparts[g[1]].path
           dir   == Abspath(Dirname(fname))
       IN  \E d \in Ancestors(dir) \ dirs :
              /\ dirs' = dirs \cup (Ancestors(d) \ {d})
              /\ trace' = Append(trace, Event("group", fname, Ancestors(d) \ ({d} \cup dirs),
                                              <<>>, <<>>, FALSE, FALSE, "makedirs"))
    /\ FinishRaises("makedirs")
    /\ UNCHANGED <<fileparts, fs, caller, groups, nFinish, wf>>

\* A generator of the group raises while '\n'.join consumes the chain (line
\* 112): the generators before it in the group ran out, and it is dead.
FinishLinesRaise ==
    /\ pc = "finish"
    /\ groups # <<>>
    /\ LET g     == Head(groups)
           fname == fileparts[g[1]].path
           dir   == Abspath(Dirname(fname))
       IN  /\ Ancestors(dir) \cap DOMAIN fs = {}
           /\ dirs' = dirs \cup Ancestors(dir)
           /\ \E k \in DOMAIN g :
                 /\ fileparts[g[k]].lazy
                 /\ fileparts[g[k]].lines # <<>>
                 /\ fileparts' = Exhaust(fileparts, {g[j] : j \in 1..k})
           /\ trace' = Append(trace, Event("group", fname, Ancestors(dir) \ dirs,
                                           <<>>, <<>>, FALSE, FALSE, "lines"))
    /\ FinishRaises("lines")
    /\ UNCHANGED <<fs, caller, groups, nFinish, wf>>

\* write_if_different fails: reading the existing file raises (line 48), or
\* opening it for writing raises (line 52, the file as it was), or the write
\* raises after the open truncated it (line 53, a part of the text written).
FinishFileRaises ==
    /\ pc = "finish"
    /\ groups # <<>>
    /\ LET g     == Head(groups)
           fname == fileparts[g[1]].path
           dir   == Abspath(Dirname(fname))
           new   == NewFileString(fileparts, g)
           exist == fname \in DOMAIN fs
           Ev(existed, wrote, error) ==
               Event("group", fname, Ancestors(dir) \ dirs, GroupLines(fileparts, g), new,
                     existed, wrote, error)
       IN  /\ Ancestors(dir) \cap DOMAIN fs = {}
           /\ dirs' = dirs \cup Ancestors(dir)
           /\ fileparts' = Exhaust(fileparts, Range(g))
           /\ \/ /\ exist \/ fname \in dirs
                 /\ fs' = fs
                 /\ trace' = Append(trace, Ev(TRUE, FALSE, "read"))
                 /\ FinishRaises("read")
              \/ /\ fname \notin dirs
                 /\ should_write(fs, fname, new)
                 /\ fs' = fs
                 /\ trace' = Append(trace, Ev(exist, FALSE, "open"))
                 /\ FinishRaises("open")
              \/ /\ fname \notin dirs
                 /\ should_write(fs, fname, new)
                 /\ \E n \in {0, Len(new) \div 2} :
                       fs' = [p \in DOMAIN fs \cup {fname} |->
                                 IF p = fname THEN SubSeq(new, 1, n) ELSE fs[p]]
                 /\ trace' = Append(trace, Ev(exist, TRUE, "write"))
                 /\ FinishRaises("write")
    /\ UNCHANGED <<caller, groups, nFinish, wf>>

\* A variant whose finally clause ends the scope normally whatever the body
\* raised.
FinishReturn_Suppress ==
    /\ pc = "finish"
    /\ groups = <<>>
    /\ pc' = IF caller = "body" THEN "body" ELSE "returned"
    /\ UNCHANGED <<fileparts, fs, dirs, caller, groups, err, nFinish, wf, trace>>

\* The loop is over and finish returns: to the finally clause of writer(),
\* which lets the body's exception go on if there is one, or to the body.
FinishReturn ==
    /\ pc = "finish"
    /\ groups = <<>>
    /\ pc' = IF caller = "body" THEN "body"
             ELSE IF err = NoError THEN "returned" ELSE "raised"
    /\ UNCHANGED <<fileparts, fs, dirs, caller, groups, err, nFinish, wf, trace>>

Finish ==
    \/ FinishGroup
    \/ FinishMakedirsRaises
    \/ FinishLinesRaise
    \/ FinishFileRaises
    \/ FinishReturn

(***************************************************************************)
(* A caller that holds a FileWriter of its own, puts fragments on its      *)
(* fileparts one by one, and then calls finish, more than once.            *)
(***************************************************************************)
\* How many fragments the caller submits at most.
MaxFrags == 3

\* How many times the caller calls finish at most.
MaxFinish == 2

LineX == <<"x">>
LineY == <<"y", " ">>

\* The fragments the caller chooses from: every kind of extension, lists
\* and generators, a path shared by two of them.
FragChoices ==
    { Fragment(<<"/", "o", "/", "a", ".", "i", "n", "c">>, <<LineX>>, FALSE),
      Fragment(<<"/", "o", "/", "a", ".", "i", "n", "c">>, <<LineY>>, TRUE),
      Fragment(<<"/", "o", "/", "b", ".", "h">>, <<LineX, LineY>>, TRUE),
      Fragment(<<"/", "o", "/", "c", ".", "c", "c">>, <<>>, TRUE),
      Fragment(<<"/", "r", "/", "k", ".", "m", "k">>, <<LineX>>, FALSE),
      Fragment(<<"/", "o", "/", "n", ".", "t", "x", "t">>, <<<<" ", "x">>>>, FALSE),
      Fragment(<<"/", "o", "/", ".", "i", "n", "c">>, <<LineX>>, FALSE) }

Root == <<"/">>

\* The disks the caller may start on: nothing generated yet; or files of an
\* earlier run, one of them equal to what will be built but for the
\* whitespace of its lines, one of them different.
InitialDisks ==
    { [files |-> << >>, dirs |-> {Root, Cwd, <<"/", "r">>}],
      [files |-> ( <<"/", "o", "/", "a", ".", "i", "n", "c">> :>
                      << "/***", "\r", "\n",
                         "* THIS FILE IS AUTOMATICALLY GENERATED", "\r", "\n",
                         "* Do not edit this file. It will be overwritten when the configure script is run.", "\r", "\n",
                         "***/", "\r", "\n",
                         "\r", "\n",
                         " ", " ", "x", "\t", "\r", "\n" >>
                   @@ <<"/", "o", "/", "n", ".", "t", "x", "t">> :> <<"x">> ),
       dirs |-> {Root, Cwd, <<"/", "r">>, <<"/", "o">>}],
      [files |-> ( <<"/", "o", "/", "a", ".", "i", "n", "c">> :> <<"/***", "\n", "old">>
                   @@ <<"/", "r", "/", "k", ".", "m", "k">> :> Join(make_generated_warning \o <<LineX>>) ),
       dirs |-> {Root, Cwd, <<"/", "r">>, <<"/", "o">>}] }

InitFrag ==
    /\ fileparts = <<>>
    /\ \E d \in InitialDisks : fs = d.files /\ dirs = d.dirs
    /\ pc = "body"
    /\ caller = "body"
    /\ groups = <<>>
    /\ err = NoError
    /\ nFinish = 0
    /\ self = [bindir_name |-> NoDir, objdir_name |-> NoDir]
    /\ calls = <<>>
    /\ trace = <<>>

\* w.fileparts.append((path, lines))
Submit ==
    /\ pc = "body"
    /\ nFinish = 0
    /\ Len(fileparts) < MaxFrags
    /\ \E f \in FragChoices : fileparts' = Append(fileparts, f)
    /\ UNCHANGED <<fs, dirs, pc, caller, groups, err, nFinish, wf, trace>>

\* w.finish()
CallFinish ==
    /\ pc = "body"
    /\ nFinish < MaxFinish
    /\ EnterFinish(fileparts, "body")
    /\ UNCHANGED <<fileparts, fs, dirs, err, wf>>

NextFrag == Submit \/ CallFinish \/ Finish

SpecFrag == InitFrag /\ [][NextFrag]_vars

(***************************************************************************)
(* write_files.                                                            *)
(*                                                                         *)
(* A configuration (parsed_config) is modelled by what write_files reads   *)
(* of it: the executable's name, the keys of module_info in the order the  *)
(* dict holds them, whether elements                                       *)
(* holds 'pmem', the modules to compile (the values of joined_module_info, *)
(* in order), and whether json.dumps accepts it.  `tag` is the word by     *)
(* which the generated lines name the configuration.                       *)
(***************************************************************************)
\* a or b, for two directory names
Or(a, b) == IF a.path # None /\ a.path # <<>> THEN a ELSE b

Module(name, func_map, deprecated_func_map) ==
    [name |-> name, func_map |-> func_map, deprecated_func_map |-> deprecated_func_map]

Config(tag, executable, modules, info_keys, pmem, serializable) ==
    [tag |-> tag, executable |-> executable, modules |-> modules,
     info_keys |-> info_keys, pmem |-> pmem, serializable |-> serializable]

\* The module_info keys write_files reads, in the order a parser filled them.
ModuleKinds == << <<"i", "n", "d", "i", "r", "e", "c", "t", "_", "b", "r", "a", "n", "c", "h">>, <<"b", "r", "a", "n", "c", "h">>, <<"b", "t", "b">>, <<"p", "r", "e", "f">>, <<"r", "e", "p", "l">> >>

Quoted(s) == <<"\"">> \o s \o <<"\"">>

RECURSIVE JsonList(_)
JsonList(items) ==
    IF items = <<>> THEN <<>>
    ELSE IF Len(items) = 1 THEN items[1]
    ELSE items[1] \o <<",", " ">> \o JsonList(Tail(items))

\* json.dumps(parsed_config): the JSON text of what the model holds of the
\* configuration, dicts and lists in their own order.
JsonDumps(cfg) ==
    LET names == [i \in DOMAIN cfg.modules |-> Quoted(cfg.modules[i].name)]
        kinds == cfg.info_keys
        info  == [i \in DOMAIN kinds |-> Quoted(kinds[i]) \o <<":", " ", "{", "}">>]
    IN  <<"[">> \o Quoted(cfg.executable) \o <<",", " ">>
              \o <<"{">> \o (IF cfg.pmem THEN Quoted(<<"p", "m", "e", "m">>) \o <<":", " ", "{", "}">> ELSE <<>>)
              \o <<"}", ",", " ">>
              \o <<"[">> \o JsonList(names) \o <<"]", ",", " ">>
              \o <<"{">> \o JsonList(info) \o <<"}">> \o <<"]">>

HexDigits == <<"0", "1", "2", "3", "4", "5", "6", "7", "8", "9", "a", "b", "c", "d", "e", "f">>

\* Two hex digits of a byte.
HexByte(n) == <<HexDigits[(n \div 16) + 1], HexDigits[(n % 16) + 1]>>

\* The 4-byte digests of two halves of a text stirred into one.
Stir(a, b) ==
    [k \in 1..4 |-> (a[k] * 31 + b[k] * 17 + a[(k % 4) + 1] + 7 * k) % 256]

\* A 4-byte digest of a text, standing for SHAKE-128 cut to 4 bytes: a
\* function of the text alone, every character of it stirred in.
RECURSIVE Digest4(_)
Digest4(s) ==
    IF s = <<>> THEN <<1, 2, 3, 4>>
    ELSE IF Len(s) = 1 THEN [k \in 1..4 |-> (Ord[s[1]] * (2 * k + 1)) % 256]
    ELSE LET half == Len(s) \div 2
         IN  Stir(Digest4(SubSeq(s, 1, half)), Digest4(SubSeq(s, half + 1, Len(s))))

\* hashlib.shake_128(text.encode('utf-8')).hexdigest(4): 8 hex digits.
Shake128Hex4(text) ==
    LET h == Digest4(text)
    IN  HexByte(h[1]) \o HexByte(h[2]) \o HexByte(h[3]) \o HexByte(h[4])

\* get_map_lines(fname_map): one '#define {} {}' line per item of the map.
get_map_lines(fname_map) ==
    [i \in DOMAIN fname_map |-> <<"#define", " ", fname_map[i][1], " ", fname_map[i][2]>>]

\* util.chain(a, b) of two maps: the items of a, then those of b.
ChainMaps(a, b) == a \o b

\* The collaborators' line sequences (instantiation_file, constants_file,
\* modules, makefile): each a generator, its lines naming what it was given.
get_instantiation_lines(cfg) == << <<"// instantiation", " ">> \o <<cfg.tag>> >>
get_constants_file(cfg) == << <<"#define CONFIG", " ">> \o <<cfg.tag>>, <<"#endif">> >>
get_ooo_cpu_module_lines(cfg) ==
    << << <<"// core declarations", " ">> \o <<cfg.tag>> >>,
       << <<"// core definitions", " ">> \o <<cfg.tag>> >> >>
get_cache_module_lines(cfg) ==
    << << <<"// cache declarations", " ">> \o <<cfg.tag>> >>,
       << <<"// cache definitions", " ">> \o <<cfg.tag>> >> >>
get_makefile_lines(objdir_word, cfg) ==
    << <<"objdir =", " ">> \o <<objdir_word>>, <<"build =", " ">> \o <<cfg.tag>> >>

\* What a write_files call leaves: the list, the exception it raised if any,
\* and the build ID and include directory it derived, if it got that far.
Outcome(parts, error, build_id, inc_dir) ==
    [parts |-> parts, error |-> error, build_id |-> build_id, inc_dir |-> inc_dir]

\* A variant that appends the modules' fragments last module first.
ModuleParts_Reversed(inc_dir, modules) ==
    [i \in DOMAIN modules |->
        Fragment(PathJoin(inc_dir, modules[Len(modules) + 1 - i].name \o <<".", "i", "n", "c">>),
                 get_map_lines(ChainMaps(modules[Len(modules) + 1 - i].func_map,
                                         modules[Len(modules) + 1 - i].deprecated_func_map)),
                 TRUE)]

\* The fragments of lines 99: one per module to compile, named after it.
ModuleParts(inc_dir, modules) ==
    [i \in DOMAIN modules |->
        Fragment(PathJoin(inc_dir, modules[i].name \o <<".", "i", "n", "c">>),
                 get_map_lines(ChainMaps(modules[i].func_map,
                                         modules[i].deprecated_func_map)),
                 TRUE)]

\* The build ID of line 73.
BuildId(parsed_config) == Shake128Hex4(JsonDumps(parsed_config))

\* The include directory of line 75.
IncDir(local_objdir_name, build_id) ==
    PathJoin3(Abspath(local_objdir_name.path), build_id, <<"i", "n", "c">>)

\* write_files from line 75 on, the build ID taken: the lines in order, up to
\* the first one that raises.
generate(w, parts, parsed_config, bindir_name, objdir_name, build_id) ==
    LET local_bindir_name == Or(bindir_name, w.bindir_name)
        local_objdir_name == Or(objdir_name, w.objdir_name)
    IN
    IF local_objdir_name.path = None THEN Outcome(parts, "abspath", build_id, None)
    ELSE
    LET inc_dir == IncDir(local_objdir_name, build_id)
        p79 == Append(parts, Fragment(PathJoin(inc_dir, instantiation_file_name),
                                      get_instantiation_lines(parsed_config), TRUE))
        p80 == Append(p79, Fragment(PathJoin(inc_dir, constants_file_name),
                                    get_constants_file(parsed_config), TRUE))
        core == get_ooo_cpu_module_lines(parsed_config)
        p85 == p80 \o << Fragment(PathJoin(inc_dir, core_module_declaration_file_name),
                                  core[1], TRUE),
                         Fragment(PathJoin(inc_dir, core_module_definition_file_name),
                                  core[2], TRUE) >>
        cache == get_cache_module_lines(parsed_config)
        p93 == p85 \o << Fragment(PathJoin(inc_dir, cache_module_declaration_file_name),
                                  cache[1], TRUE),
                         Fragment(PathJoin(inc_dir, cache_module_definition_file_name),
                                  cache[2], TRUE) >>
        p99 == p93 \o ModuleParts(inc_dir, parsed_config.modules)
        p100 == Append(p99, Fragment(makefile_file_name,
                                     get_makefile_lines(local_objdir_name.word, parsed_config),
                                     TRUE))
    IN
    IF ~parsed_config.pmem THEN Outcome(p79, "elements['pmem']", build_id, inc_dir)
    ELSE IF ~({<<"i", "n", "d", "i", "r", "e", "c", "t", "_", "b", "r", "a", "n", "c", "h">>, <<"b", "r", "a", "n", "c", "h">>, <<"b", "t", "b">>} \subseteq Range(parsed_config.info_keys))
    THEN Outcome(p80, "module_info[core]", build_id, inc_dir)
    ELSE IF ~({<<"p", "r", "e", "f">>, <<"r", "e", "p", "l">>} \subseteq Range(parsed_config.info_keys))
    THEN Outcome(p85, "module_info[cache]", build_id, inc_dir)
    ELSE IF local_bindir_name.path = None
    THEN Outcome(p99, "os.path.join", build_id, inc_dir)
    ELSE Outcome(p100, NoError, build_id, inc_dir)

\* A variant that takes the build ID last: the fragments are appended before
\* json.dumps raises.
write_files_HashesLast(w, parts, parsed_config, bindir_name, objdir_name) ==
    IF ~parsed_config.serializable
    THEN Outcome(generate(w, parts, parsed_config, bindir_name, objdir_name, <<"0">>).parts,
                 "json.dumps", None, None)
    ELSE generate(w, parts, parsed_config, bindir_name, objdir_name, BuildId(parsed_config))

\* A variant whose build ID digests the object directory with the JSON text.
write_files_HashesObjdir(w, parts, parsed_config, bindir_name, objdir_name) ==
    LET objdir == Or(objdir_name, w.objdir_name).path
        salt   == IF objdir = None THEN <<>> ELSE objdir
    IN  IF ~parsed_config.serializable THEN Outcome(parts, "json.dumps", None, None)
        ELSE generate(w, parts, parsed_config, bindir_name, objdir_name,
                      Shake128Hex4(JsonDumps(parsed_config) \o salt))

\* A variant that binds a new list instead of appending to the writer's.
write_files_NewList(w, parts, parsed_config, bindir_name, objdir_name) ==
    IF ~parsed_config.serializable THEN Outcome(parts, "json.dumps", None, None)
    ELSE generate(w, <<>>, parsed_config, bindir_name, objdir_name, BuildId(parsed_config))

\* write_files(parsed_config, bindir_name, objdir_name) on writer w, whose
\* list is parts: json.dumps raises for what it cannot serialize (line 73,
\* before anything else is done), else the build ID is the digest of the
\* JSON text and the fragments are generated.
write_files(w, parts, parsed_config, bindir_name, objdir_name) ==
    IF ~parsed_config.serializable THEN Outcome(parts, "json.dumps", None, None)
    ELSE generate(w, parts, parsed_config, bindir_name, objdir_name, BuildId(parsed_config))

(***************************************************************************)
(* The writer() scope: `with writer(bindir, objdir) as w:` around a body   *)
(* that calls w.write_files, then finish in the finally clause.            *)
(***************************************************************************)
\* How many write_files calls the body makes at most.
MaxCalls == 2

ModM == Module(<<"m">>, << <<"f", "g">> >>, << <<"old_f", "g">> >>)
ModN == Module(<<"n">>, << <<"h", "k">> >>, <<>>)
\* A module to compile that is named as the instantiation file is.
ModCoreInst == Module(<<"c", "o", "r", "e", "_", "i", "n", "s", "t">>, << <<"f", "g">> >>, <<>>)

\* The configurations the body passes: two that generate everything; one
\* whose module_info lacks the cache keys, so that line 91 raises; one that
\* json.dumps rejects; one whose module has the name of a fixed file.
CfgA == Config("A", <<"c", "h", "a", "m", "p", "s", "i", "m">>, <<ModM>>, ModuleKinds, TRUE, TRUE)
CfgB == Config("B", <<"c", "h", "a", "m", "p", "s", "i", "m">>, <<ModM, ModN>>, ModuleKinds, TRUE, TRUE)
CfgNoCache == Config("C", <<"c", "h", "a", "m", "p", "s", "i", "m">>, <<ModM>>, SubSeq(ModuleKinds, 1, 3), TRUE, TRUE)
CfgBad == Config("D", <<"c", "h", "a", "m", "p", "s", "i", "m">>, <<ModM>>, ModuleKinds, TRUE, FALSE)

CfgClash == Config("E", <<"c", "h", "a", "m", "p", "s", "i", "m">>, <<ModCoreInst>>, ModuleKinds, TRUE, TRUE)

Configs == {CfgA, CfgB, CfgNoCache, CfgBad, CfgClash}

DirD == Dir(<<"/", "d">>, "/d")
DirO == Dir(<<"o">>, "o")
DirBin == Dir(<<"b", "i", "n">>, "bin")

\* The arguments of writer(): none, or both directories.
WriterArgs == { [bindir_name |-> NoDir, objdir_name |-> NoDir],
                [bindir_name |-> DirBin, objdir_name |-> DirD] }

\* The objdir_name argument of write_files: left out, or a relative directory.
ObjdirArgs == {NoDir, DirO}

\* The disks a run may start on: nothing generated yet; or the files of an
\* earlier run, the instantiation file of CfgA under /d as this run will
\* build it but with its lines' whitespace changed, an older makefile.
ScopeDisks ==
    { [files |-> << >>, dirs |-> {Root, Cwd, <<"/", "r">>}],
      [files |-> ( PathJoin(IncDir(DirD, BuildId(CfgA)), instantiation_file_name) :>
                      Join(StripAll(cxx_generated_warning \o get_instantiation_lines(CfgA)))
                          \o <<"\n">>
                   @@ makefile_file_name :> Join(make_generated_warning \o <<<<"old">>>>) ),
       dirs |-> Ancestors(IncDir(DirD, BuildId(CfgA))) \cup {Root, Cwd, <<"/", "r">>}] }

\* A variant of the scope that calls finish in an else clause: only when the
\* body raised nothing.
LeaveBody_Else(parts, error) ==
    /\ err' = error
    /\ IF error = NoError THEN EnterFinish(parts, "scope")
       ELSE pc' = "raised" /\ UNCHANGED <<caller, groups, nFinish, trace>>

\* The with-body is left, with exception `error` or none: the finally clause
\* of writer() calls w.finish(), the exception still in flight.
LeaveBody(parts, error) ==
    /\ err' = error
    /\ EnterFinish(parts, "scope")

Init ==
    /\ fileparts = <<>>
    /\ \E d \in ScopeDisks : fs = d.files /\ dirs = d.dirs
    /\ pc = "body"
    /\ caller = "scope"
    /\ groups = <<>>
    /\ err = NoError
    /\ nFinish = 0
    /\ self \in WriterArgs
    /\ calls = <<>>
    /\ trace = <<>>

\* What the model keeps of a write_files call.
Call(cfg, objdir_name, r, first) ==
    [config |-> cfg, objdir_name |-> objdir_name, build_id |-> r.build_id,
     inc_dir |-> r.inc_dir, first |-> first, last |-> Len(r.parts), error |-> r.error]

\* w.write_files(cfg, objdir_name=objdir) returns.
WriteFiles ==
    /\ pc = "body"
    /\ Len(calls) < MaxCalls
    /\ \E cfg \in Configs, objdir \in ObjdirArgs :
          LET r == write_files(self, fileparts, cfg, NoDir, objdir)
          IN  /\ r.error = NoError
              /\ fileparts' = r.parts
              /\ calls' = Append(calls, Call(cfg, objdir, r, Len(fileparts) + 1))
    /\ UNCHANGED <<fs, dirs, pc, caller, groups, err, nFinish, self, trace>>

\* w.write_files(cfg, objdir_name=objdir) raises: the body is left with the
\* exception and the finally clause of writer() calls w.finish().
WriteFilesRaises ==
    /\ pc = "body"
    /\ Len(calls) < MaxCalls
    /\ \E cfg \in Configs, objdir \in ObjdirArgs :
          LET r == write_files(self, fileparts, cfg, NoDir, objdir)
          IN  /\ r.error # NoError
              /\ fileparts' = r.parts
              /\ calls' = Append(calls, Call(cfg, objdir, r, Len(fileparts) + 1))
              /\ LeaveBody(r.parts, r.error)
    /\ UNCHANGED <<fs, dirs, self>>

\* The body ends: the finally clause of writer() calls w.finish().
BodyReturns ==
    /\ pc = "body"
    /\ LeaveBody(fileparts, NoError)
    /\ UNCHANGED <<fileparts, fs, dirs, wf>>

\* The body raises outside write_files: the same finally clause runs.
BodyRaises ==
    /\ pc = "body"
    /\ LeaveBody(fileparts, "body")
    /\ UNCHANGED <<fileparts, fs, dirs, wf>>

Next == WriteFiles \/ WriteFilesRaises \/ BodyReturns \/ BodyRaises \/ Finish

Spec == Init /\ [][Next]_vars

(***************************************************************************)
(* The claims.                                                             *)
(***************************************************************************)
\* The events of groups reached, and of those whose text was joined.
GroupEvents == {i \in DOMAIN trace : trace[i].op = "group"}
BuiltEvents == {i \in GroupEvents : trace[i].error \notin {"makedirs", "lines"}}

\* The exceptions finish raises.
FinishErrors == {"makedirs", "lines", "read", "open", "write"}

\* Which call of finish event i belongs to: the first, the second, ...
FinishNo(i) == Cardinality({j \in 1..i : trace[j].op = "finish"})

\* A step that reaches one more group and ends it without an exception.
GroupStep ==
    /\ Len(trace') = Len(trace) + 1
    /\ trace'[Len(trace')].op = "group"
    /\ trace'[Len(trace')].error = NoError

\* The file name of `path` ends with `ext` (a dot and letters) and is more
\* than dots before it: `ext` is the path's extension.
HasExtension(path, ext) ==
    LET name == Slice(path, RFind(path, "/") + 1, Len(path))
        n    == Len(name) - Len(ext)
    IN  /\ n > 0
        /\ SubSeq(name, n + 1, Len(name)) = ext
        /\ \E k \in 1..n : name[k] # "."

\* The path ends with the characters of `suffix`.
EndsWith(path, suffix) ==
    /\ Len(path) >= Len(suffix)
    /\ SubSeq(path, Len(path) - Len(suffix) + 1, Len(path)) = suffix

\* The banner the claims expect for a path.
BannerFor(path) ==
    IF \E ext \in {<<".", "c", "c">>, <<".", "h">>, <<".", "i", "n", "c">>} : HasExtension(path, ext)
    THEN cxx_generated_warning
    ELSE IF HasExtension(path, <<".", "m", "k">>) THEN make_generated_warning
    ELSE <<>>

\* The lines of the fragments of `parts` on path p, in the order of the list.
RECURSIVE LinesOnPath(_, _)
LinesOnPath(parts, p) ==
    IF parts = <<>> THEN <<>>
    ELSE (IF Head(parts).path = p THEN Head(parts).lines ELSE <<>>)
             \o LinesOnPath(Tail(parts), p)

\* The file at the event's path is the text built for it, or was left alone
\* as one whose stripped lines are those of the text.
FileIsAsBuilt(e) ==
    /\ e.fname \in DOMAIN fs
    /\ \/ fs[e.fname] = e.new
       \/ /\ e.existed
          /\ ~e.wrote
          /\ StripAll(ReadLines(fs[e.fname])) = StripAll(SplitLines(e.new))

\* C1: in finish, the file of a group is written if and only if its path
\* does not exist or the stripped lines of the existing file differ from the
\* stripped lines of the new text; written, it holds the new text; not
\* written, it keeps its bytes.
C1_WrittenIffDifferent ==
    [][ GroupStep =>
          LET e == trace'[Len(trace')]
              p == e.fname
              differs == \/ p \notin DOMAIN fs
                         \/ StripAll(ReadLines(fs[p])) # StripAll(SplitLines(e.new))
          IN  /\ e.wrote <=> differs
              /\ p \in DOMAIN fs'
              /\ differs => fs'[p] = e.new
              /\ ~differs => fs'[p] = fs[p] ]_vars

\* C1's case: a file that differs from the new text only in the whitespace of
\* its lines was reached and left as it was.
C1_Witness ==
    \E i \in GroupEvents :
        /\ trace[i].error = NoError
        /\ trace[i].existed
        /\ ~trace[i].wrote
        /\ fs[trace[i].fname] # trace[i].new

\* C2, as claimed: a second finish on the same writer, nothing submitted in
\* between, writes no file, whatever the fragments' sequences are.
C2_SecondFlushWritesNothing ==
    \A i \in GroupEvents : FinishNo(i) >= 2 => ~trace[i].wrote

\* C3, as claimed: the text built for a path ending in .inc has no banner,
\* it is the group's lines alone.
C3_IncHasNoBanner ==
    \A i \in BuiltEvents :
        EndsWith(trace[i].fname, <<".", "i", "n", "c">>) => trace[i].new = Join(trace[i].lines)

\* C3, amended: the text built for a path of extension .inc is the 5 lines
\* of the C-style banner and then the group's lines.
C3_IncHasCxxBanner ==
    \A i \in BuiltEvents :
        HasExtension(trace[i].fname, <<".", "i", "n", "c">>) =>
            /\ Len(cxx_generated_warning) = 5
            /\ trace[i].new = Join(cxx_generated_warning \o trace[i].lines)

\* C3's case: the instantiation file core_inst.inc was built from its lines.
C3_Witness ==
    \E i \in BuiltEvents :
        /\ EndsWith(trace[i].fname, <<"/">> \o instantiation_file_name)
        /\ trace[i].lines # <<>>
        /\ trace[i].error = NoError

\* C4: the built text is the banner of the path's extension (the 5-line C
\* block for .cc, .h, .inc, the 5-line '#' block for .mk, none otherwise),
\* once, and then the lines of all the group's fragments.
C4_BannerByExtension ==
    /\ Len(cxx_generated_warning) = 5
    /\ Len(make_generated_warning) = 5
    /\ \A i \in BuiltEvents :
          trace[i].new = Join(BannerFor(trace[i].fname) \o trace[i].lines)

\* C4's case: a group of two fragments on an .inc path was built, and a
\* group on a .mk path.
C4_Witness ==
    /\ \E i \in BuiltEvents : /\ trace[i].fname = <<"/", "o", "/", "a", ".", "i", "n", "c">>
                              /\ trace[i].lines = <<LineX, LineY>>
    /\ \E i \in BuiltEvents : trace[i].fname = <<"/", "r", "/", "k", ".", "m", "k">>

\* C5: finish builds one text per distinct path (a group reached has a path
\* no group of that call had, and when finish returns every path of the list
\* has its group), from the lines of the path's fragments in the order of
\* submission.
C5_OneTextPerPathInOrder ==
    [][ /\ GroupStep =>
            LET e == trace'[Len(trace')]
            IN  /\ e.lines = LinesOnPath(fileparts, e.fname)
                /\ \A j \in GroupEvents :
                      FinishNo(j) = FinishNo(Len(trace)) => trace[j].fname # e.fname
        /\ (pc = "finish" /\ pc' \in {"body", "returned"}) =>
            {trace[j].fname : j \in {k \in GroupEvents : FinishNo(k) = FinishNo(Len(trace))}}
                = {fileparts[i].path : i \in DOMAIN fileparts} ]_vars

\* C5's case: (P, [x]), another path, (P, [y]) were submitted and P's text
\* after the banner is "x\ny".
C5_Witness ==
    /\ Len(fileparts) = 3
    /\ fileparts[1].path = <<"/", "o", "/", "a", ".", "i", "n", "c">>
    /\ fileparts[2].path # <<"/", "o", "/", "a", ".", "i", "n", "c">>
    /\ fileparts[3].path = <<"/", "o", "/", "a", ".", "i", "n", "c">>
    /\ \E i \in BuiltEvents :
          /\ trace[i].fname = <<"/", "o", "/", "a", ".", "i", "n", "c">>
          /\ trace[i].new = Join(cxx_generated_warning \o <<LineX, LineY>>)

\* The finish the scope called is over and raised nothing.
FinishedClean == pc \in {"returned", "raised"} /\ err \notin FinishErrors

\* C6: after a finish that raised nothing, every path of the list is a file,
\* and the file is the text built for it (banner, then the group's lines,
\* joined by newlines, nothing left of what was there) or the file that was
\* there, not written, with the same stripped lines.
C6_FilesAsBuilt ==
    FinishedClean =>
        \A k \in DOMAIN fileparts :
            \E i \in BuiltEvents :
                /\ trace[i].fname = fileparts[k].path
                /\ trace[i].new = Join(BannerFor(trace[i].fname) \o trace[i].lines)
                /\ FileIsAsBuilt(trace[i])

\* C6's case: a finish that raised nothing replaced a file that was there
\* and left another, equal but for whitespace, as it was.
C6_Witness ==
    /\ FinishedClean
    /\ \E i \in BuiltEvents : trace[i].existed /\ trace[i].wrote
    /\ \E i \in BuiltEvents : /\ trace[i].existed
                              /\ ~trace[i].wrote
                              /\ fs[trace[i].fname] # trace[i].new

\* C7: the scope calls finish once on exit, not before, whether the body
\* returned or raised; and when the body raised and finish raised nothing,
\* every fragment in the list, those of the failing call too, has its file.
C7_FinishOnceOnExit ==
    /\ pc = "body" => nFinish = 0
    /\ pc # "body" => nFinish = 1
    /\ (FinishedClean /\ err # NoError) =>
          /\ calls # <<>> => Len(fileparts) = calls[Len(calls)].last
          /\ \A k \in DOMAIN fileparts :
                \E i \in BuiltEvents : /\ trace[i].fname = fileparts[k].path
                                       /\ trace[i].error = NoError
                                       /\ FileIsAsBuilt(trace[i])

\* C7's case: a second write_files call raised after it appended four
\* fragments, and the scope was left with that exception, all files there.
C7_Witness ==
    /\ pc = "raised"
    /\ err = "module_info[cache]"
    /\ Len(calls) = 2
    /\ calls[2].last = calls[2].first + 3
    /\ \A k \in DOMAIN fileparts : fileparts[k].path \in DOMAIN fs

\* No group reached made a directory or opened a file for writing.
NothingTouched == \A i \in GroupEvents : trace[i].made = {} /\ ~trace[i].wrote

\* C8, as claimed: in a run where a write_files call failed to serialize its
\* configuration, no file or directory was made or written when the error
\* reaches the caller, earlier calls or not.
C8_SerializationFailureTouchesNothing ==
    (pc = "raised" /\ \E k \in DOMAIN calls : calls[k].error = "json.dumps")
        => NothingTouched

\* C8, amended: a write_files call that fails to serialize its configuration
\* fails before it appends a fragment and is the body's last call, so when
\* the error reaches the caller finish has reached only the paths of the
\* fragments earlier calls appended; when the failing call is the first, no
\* group was reached and no file or directory was made or written.
C8_FailureTouchesOnlyEarlierFragments ==
    (pc = "raised" /\ \E k \in DOMAIN calls : calls[k].error = "json.dumps")
        => LET failed == calls[Len(calls)]
           IN  /\ failed.error = "json.dumps"
               /\ failed.last = failed.first - 1
               /\ Len(fileparts) = failed.last
               /\ \A i \in GroupEvents :
                     \E j \in 1..failed.last : fileparts[j].path = trace[i].fname
               /\ Len(calls) = 1 => (GroupEvents = {} /\ NothingTouched)

\* C8's case: the first call failed to serialize and the error reached the
\* caller.
C8_Witness ==
    /\ pc = "raised"
    /\ err = "json.dumps"
    /\ Len(calls) = 1
    /\ calls[1].error = "json.dumps"
    /\ nFinish = 1

\* The 8 hexadecimal digits of the digest of each configuration's JSON text.
DigestOfJson ==
    [c \in {c \in Configs : c.serializable} |-> Shake128Hex4(JsonDumps(c))]

\* C9: the build ID a call derives is the digest of its configuration's JSON
\* text, so two calls given the same configuration derive the same one, and
\* the same include directory when their object directory is the same,
\* whatever else they were given and whatever the list held.
C9_BuildIdOfConfigAlone ==
    \A i \in DOMAIN calls :
        calls[i].config.serializable =>
            /\ calls[i].build_id = DigestOfJson[calls[i].config]
            /\ \A j \in DOMAIN calls :
                  calls[j].config = calls[i].config =>
                      /\ calls[j].build_id = calls[i].build_id
                      /\ calls[j].objdir_name = calls[i].objdir_name
                            => calls[j].inc_dir = calls[i].inc_dir

\* C9's case: two calls with one configuration and two object directories,
\* the second on a list the first had filled.
C9_Witness ==
    /\ Len(calls) = 2
    /\ calls[1].config = calls[2].config
    /\ calls[1].objdir_name # calls[2].objdir_name
    /\ calls[1].inc_dir # calls[2].inc_dir
    /\ calls[1].build_id = calls[2].build_id
    /\ calls[2].first > 1

\* C10: a write_files call leaves the disk alone and reaches no group, and
\* leaves the list as it was but for what it appended at the end; the disk
\* changes only while finish runs.
C10_WriteFilesOnlyAppends ==
    [][ /\ calls' # calls =>
            /\ fs' = fs
            /\ dirs' = dirs
            /\ GroupEvents' = GroupEvents
            /\ Len(fileparts') >= Len(fileparts)
            /\ SubSeq(fileparts', 1, Len(fileparts)) = fileparts
        /\ (fs' # fs \/ dirs' # dirs) => (pc = "finish" /\ calls' = calls) ]_vars

\* C10's case: two write_files calls returned, the second appending after
\* the fragments of the first, and finish has not run.
C10_Witness ==
    /\ pc = "body"
    /\ Len(calls) = 2
    /\ calls[2].first = calls[1].last + 1
    /\ calls[2].last = Len(fileparts)
    /\ trace = <<>>

\* The paths of the list that sort before path p, and after it.
PathsBefore(p) == {fileparts[k].path : k \in {j \in DOMAIN fileparts : StrLess(fileparts[j].path, p)}}
PathsAfter(p) == {fileparts[k].path : k \in {j \in DOMAIN fileparts : StrLess(p, fileparts[j].path)}}

\* The group events of the finish call event i belongs to.
SameFinish(i) == {j \in GroupEvents : FinishNo(j) = FinishNo(i)}

\* C11: when the group of path P fails in finish (making the directory,
\* reading the file, a fragment's lines, writing), finish is over with that
\* exception and reaches no further group: every path sorting before P was
\* reached in this call without an exception and its file is as finish left
\* it, and no path sorting after P was reached.
C11_AbortsAtFailingGroup ==
    \A i \in GroupEvents :
        trace[i].error # NoError =>
            /\ i = Len(trace)
            /\ pc = "raised"
            /\ err = trace[i].error
            /\ \A q \in PathsBefore(trace[i].fname) :
                  \E j \in SameFinish(i) : /\ trace[j].fname = q
                                           /\ trace[j].error = NoError
                                           /\ FileIsAsBuilt(trace[j])
            /\ \A q \in PathsAfter(trace[i].fname) :
                  \A j \in SameFinish(i) : trace[j].fname # q

\* C11's case: a group failed with a path before it written and a path
\* after it in the list.
C11_Witness ==
    \E i \in GroupEvents :
        /\ trace[i].error \in FinishErrors
        /\ PathsAfter(trace[i].fname) # {}
        /\ \E j \in SameFinish(i) : trace[j].wrote /\ trace[j].error = NoError

\* An exception was raised in the run: by a write_files call, by the body
\* outside of it, or by finish.
RunFailed ==
    \/ err # NoError
    \/ \E k \in DOMAIN calls : calls[k].error # NoError
    \/ \E i \in GroupEvents : trace[i].error # NoError

\* C12: the scope is left normally only when nothing raised; when the body
\* or finish raised, the scope is left with an exception: the one finish
\* raised if it raised, else the one the body raised, which the flush that
\* raised nothing lets go on.
C12_NoErrorSwallowed ==
    /\ pc = "returned" => ~RunFailed
    /\ pc = "raised" =>
          /\ err # NoError
          /\ err \in FinishErrors =>
                (trace # <<>> /\ trace[Len(trace)].error = err)
          /\ err \notin FinishErrors =>
                /\ \A i \in GroupEvents : trace[i].error = NoError
                /\ err = "body" \/ (calls # <<>> /\ calls[Len(calls)].error = err)
    /\ \A k \in DOMAIN calls : calls[k].error # NoError => pc # "body"

\* C12's case: the body raised, the flush on exit wrote files and raised
\* nothing, and the scope is left with the body's exception.
C12_Witness ==
    /\ pc = "raised"
    /\ err = "body"
    /\ \A i \in GroupEvents : trace[i].error = NoError
    /\ \E i \in GroupEvents : trace[i].wrote

\* C13, as claimed: the fragments one write_files call appended have
\* pairwise distinct paths, whatever the configuration's modules are named.
C13_OnePassDistinctPaths ==
    \A c \in DOMAIN calls :
        \A i, j \in calls[c].first..calls[c].last :
            i # j => fileparts[i].path # fileparts[j].path

\* The object directory a call works with, and its include directory as the
\* claims expect it: the absolute object directory, the digest of the
\* configuration's JSON text, "inc".
ObjdirOf(c) == IF c.objdir_name.path # None THEN c.objdir_name ELSE self.objdir_name
ExpectedIncDir(c) ==
    LET o == ObjdirOf(c).path
    IN  (IF o[1] = "/" THEN o ELSE Cwd \o <<"/">> \o o)
            \o <<"/">> \o DigestOfJson[c.config] \o <<"/", "i", "n", "c">>

\* The file names of the six fixed fragments, in the order of the claim.
FixedNames ==
    << <<"c", "o", "r", "e", "_", "i", "n", "s", "t", ".", "i", "n", "c">>, <<"c", "h", "a", "m", "p", "s", "i", "m", "_", "c", "o", "n", "s", "t", "a", "n", "t", "s", ".", "h">>,
       <<"o", "o", "o", "_", "c", "p", "u", "_", "m", "o", "d", "u", "l", "e", "_", "d", "e", "c", "l", ".", "i", "n", "c">>, <<"o", "o", "o", "_", "c", "p", "u", "_", "m", "o", "d", "u", "l", "e", "_", "d", "e", "f", ".", "i", "n", "c">>,
       <<"c", "a", "c", "h", "e", "_", "m", "o", "d", "u", "l", "e", "_", "d", "e", "c", "l", ".", "i", "n", "c">>, <<"c", "a", "c", "h", "e", "_", "m", "o", "d", "u", "l", "e", "_", "d", "e", "f", ".", "i", "n", "c">> >>

\* C14: a write_files call that returned appended the six fixed fragments in
\* order, then one {name}.inc fragment per module to compile, all in the
\* include directory of the absolute object directory and the build ID, and
\* last one fragment on _configuration.mk at the root of the repository,
\* the same for every object directory and build ID.
C14_FragmentsOfOnePass ==
    \A k \in DOMAIN calls :
        calls[k].error = NoError =>
            LET c    == calls[k]
                mods == c.config.modules
                inc  == ExpectedIncDir(c)
                at(n) == fileparts[c.first + n - 1].path
            IN  /\ c.last = c.first + 6 + Len(mods)
                /\ c.inc_dir = inc
                /\ \A n \in 1..6 : at(n) = inc \o <<"/">> \o FixedNames[n]
                /\ \A n \in DOMAIN mods :
                      at(6 + n) = inc \o <<"/">> \o mods[n].name \o <<".", "i", "n", "c">>
                /\ fileparts[c.last].path = <<"/", "r", "/", "_", "c", "o", "n", "f", "i", "g", "u", "r", "a", "t", "i", "o", "n", ".", "m", "k">>
                /\ \A n \in c.first..(c.last - 1) :
                      fileparts[n].path # <<"/", "r", "/", "_", "c", "o", "n", "f", "i", "g", "u", "r", "a", "t", "i", "o", "n", ".", "m", "k">>

\* C14's case: a call with two modules to compile and a relative object
\* directory returned, after another call.
C14_Witness ==
    \E k \in DOMAIN calls :
        /\ calls[k].error = NoError
        /\ Len(calls[k].config.modules) = 2
        /\ calls[k].last = calls[k].first + 8
        /\ calls[k].first > 1
        /\ calls[k].objdir_name = DirO

\* C15: in one call of finish the groups are reached in ascending order of
\* their paths as Python compares strings, whatever the order of submission:
\* a group is reached only when every smaller path of the list has had its
\* group in this call, and no greater one has.
C15_AscendingPathOrder ==
    \A i \in GroupEvents :
        /\ \A j \in SameFinish(i) : j < i => StrLess(trace[j].fname, trace[i].fname)
        /\ \A q \in PathsBefore(trace[i].fname) :
              \E j \in SameFinish(i) : j < i /\ trace[j].fname = q

\* C15's case: three paths submitted in descending order, their groups
\* reached in ascending order.
C15_Witness ==
    /\ Len(fileparts) = 3
    /\ StrLess(fileparts[3].path, fileparts[2].path)
    /\ StrLess(fileparts[2].path, fileparts[1].path)
    /\ Len(trace) = 4
    /\ trace[2].fname = fileparts[3].path
    /\ trace[3].fname = fileparts[2].path
    /\ trace[4].fname = fileparts[1].path
    /\ trace[4].error = NoError

\* The directory an absolute path is in and the directories above it.
ParentChain(fname) ==
    {SubSeq(fname, 1, n) : n \in {m \in 1..(RFind(fname, "/") - 1) : fname[m + 1] = "/"}}
        \cup {<<"/">>}

\* C16: a step of finish that reaches a group leaves the directory of its
\* path and the directories above it existing, unless making them raised,
\* whether the file is then written, left alone, or reading it, building the
\* text or writing raises; when making them raised, no fragment's lines were
\* taken and no file was changed; and no step removes a directory.
C16_DirectoryMadeFirst ==
    [][ /\ dirs \subseteq dirs'
        /\ (Len(trace') = Len(trace) + 1 /\ trace'[Len(trace')].op = "group") =>
              LET e == trace'[Len(trace')]
              IN  /\ e.error # "makedirs" => ParentChain(e.fname) \subseteq dirs'
                  /\ e.made = ParentChain(e.fname) \ dirs \/ e.error = "makedirs"
                  /\ e.error = "makedirs" =>
                        /\ fileparts' = fileparts
                        /\ fs' = fs
                        /\ ~(ParentChain(e.fname) \subseteq dirs') ]_vars

\* C16's case: the directories of a group were made, three of them, and
\* then a generator of the group raised; they are there and the file is not.
C16_Witness ==
    \E i \in GroupEvents :
        /\ trace[i].error = "lines"
        /\ Cardinality(trace[i].made) >= 3
        /\ ParentChain(trace[i].fname) \subseteq dirs
        /\ trace[i].fname \notin DOMAIN fs

\* The makefile lines of the calls that returned, in the order of the calls.
RECURSIVE MakefileLinesOf(_)
MakefileLinesOf(cs) ==
    IF cs = <<>> THEN <<>>
    ELSE (IF Head(cs).error = NoError
          THEN get_makefile_lines(ObjdirOf(Head(cs)).word, Head(cs).config)
          ELSE <<>>)
             \o MakefileLinesOf(Tail(cs))

\* The positions of the list, and the group events, on the makefile's path.
MakefileParts == {k \in DOMAIN fileparts : fileparts[k].path = makefile_file_name}
MakefileEvents == {i \in GroupEvents : trace[i].fname = makefile_file_name}

\* C17: the makefile's path holds one fragment per write_files call that
\* returned, and finish builds one text for it: the make banner once, then
\* the makefile lines of each call in the order of the calls; it reaches the
\* path once, so writes it at most once.
C17_OneMakefileOfAllPasses ==
    /\ Cardinality(MakefileParts)
          = Cardinality({k \in DOMAIN calls : calls[k].error = NoError})
    /\ Cardinality(MakefileEvents) <= 1
    /\ \A i \in MakefileEvents \cap BuiltEvents :
          /\ trace[i].lines = MakefileLinesOf(calls)
          /\ trace[i].new = Join(make_generated_warning \o trace[i].lines)
          /\ trace[i].wrote /\ trace[i].error = NoError => fs[makefile_file_name] = trace[i].new

\* C17's case: two calls with two configurations and two object directories
\* returned, and the one makefile of both was written.
C17_Witness ==
    /\ Len(calls) = 2
    /\ calls[1].error = NoError /\ calls[2].error = NoError
    /\ calls[1].config # calls[2].config
    /\ calls[1].objdir_name # calls[2].objdir_name
    /\ Cardinality(MakefileParts) = 2
    /\ \E i \in MakefileEvents : /\ trace[i].wrote
                                 /\ trace[i].error = NoError
                                 /\ Len(trace[i].lines) = 4

\* The paths of the fragments in the list.
TargetPaths == {fileparts[k].path : k \in DOMAIN fileparts}

\* C18: no step removes a file or a directory; a step changes or makes a
\* file only at the path of a fragment of the list, the one of the group it
\* reaches, and makes only directories that the directory of that path is
\* or is in.
C18_OnlyTargetsTouched ==
    [][ /\ DOMAIN fs \subseteq DOMAIN fs'
        /\ dirs \subseteq dirs'
        /\ \A p \in DOMAIN fs' :
              (p \notin DOMAIN fs \/ fs'[p] # fs[p]) =>
                  /\ p \in TargetPaths
                  /\ pc = "finish"
                  /\ trace'[Len(trace')].fname = p
        /\ dirs' \ dirs \subseteq UNION {ParentChain(q) : q \in TargetPaths} ]_vars

\* C18's case: finish wrote the file of a fragment and made its directory,
\* and a file that is no fragment's is on the disk.
C18_Witness ==
    /\ \E i \in GroupEvents : /\ trace[i].wrote
                              /\ trace[i].error = NoError
                              /\ trace[i].made # {}
    /\ \E p \in DOMAIN fs : p \notin TargetPaths

====
